---- MODULE Spec2Model ----
(***************************************************************************)
(* Package Finder (python_scripts/src/package_finder.py).                  *)
(*                                                                         *)
(* One query of the package/namespace locator as a state machine: main()   *)
(* validates the root, find_package() runs the packageset locator, the     *)
(* language auto-detector, the definition locator, the file collection    *)
(* and the batched import/usage scan (sequentially or on a process pool    *)
(* whose batches complete in any order the pool allows), sorts, and        *)
(* main() formats the result and exits.                                    *)
(*                                                                         *)
(* Representation.  A file or directory name is the sequence of its        *)
(* dot-separated components ("__init__.py" is <<"__init__", "py">>), a     *)
(* path is the sequence of names below the root, a line of text is a       *)
(* record [form, name]: the surface form of the line and the identifier    *)
(* it spells.  The regular expressions of the source are modelled by the   *)
(* forms they accept and by their case sensitivity.  The forms, for an     *)
(* identifier X:                                                           *)
(*   "import"         import X                                             *)
(*   "from"           from X.sub import y                                  *)
(*   "member"         X.run()                                              *)
(*   "using"          using X;                                             *)
(*   "using_sub"      using X.Core;                                        *)
(*   "namespace"      namespace X {                                        *)
(*   "namespace_sub"  namespace X.Core {                                   *)
(*   "use"            use X;                                               *)
(*   "use_path"       use X::item;                                         *)
(*   "package"        package X;                                           *)
(*   "mod"            mod X;                                               *)
(*   "id"             "id": "X"          (a line of a .packageset file)    *)
(*   "mention"        "deps": ["X"]      (a line of a .packageset file)    *)
(*   "other"          text that does not spell the identifier              *)
(***************************************************************************)
EXTENDS Integers, Sequences, FiniteSets, TLC

(***************************************************************************)
(* Bounds of the model.                                                    *)
(***************************************************************************)
MaxBatchSize == 2      \* find_package is called with batch_size in 1..MaxBatchSize (or the default)
MaxWorkers == 2        \* max_workers is None (auto) or in 1..MaxWorkers
MaxItems == 2          \* format_results is called with max_items in 0..MaxItems
MaxBulkDirs == 3       \* the big trees of the detector hold MaxBulkDirs directories of many files

(***************************************************************************)
(* Program constants.                                                      *)
(***************************************************************************)
DefaultBatchSize == 100     \* find_package(batch_size=100)
EarlyExitThreshold == 1000  \* detect_language: sum(counts.values()) > 1000

(***************************************************************************)
(* Names.                                                                  *)
(***************************************************************************)
RECURSIVE SeqToSet(_)
SeqToSet(s) == IF s = <<>> THEN {} ELSE {Head(s)} \cup SeqToSet(Tail(s))

RECURSIVE Concat(_)
\* The concatenation of a sequence of sequences (list.extend in a loop).
Concat(ss) == IF ss = <<>> THEN <<>> ELSE Head(ss) \o Concat(Tail(ss))

\* str.lower() on one component: the mixed-case spellings used in the tree.
LowerComp(c) ==
    CASE c = "OpmLite" -> "opmlite"
      [] c = "Deps" -> "deps"
      [] c = "Lib" -> "lib"
      [] c = "App" -> "app"
      [] OTHER -> c

\* str.lower() on a name.
Lower(name) == [i \in 1..Len(name) |-> LowerComp(name[i])]

\* Path(...).suffix: the last dot-separated component, with its dot; "" when
\* the name has no dot after its first character.
Suffix(name) ==
    IF Len(name) >= 2 /\ ~(Len(name) = 2 /\ name[1] = "") THEN name[Len(name)] ELSE ""

\* str.endswith("." + ext)
EndsWithExt(name, ext) == Len(name) >= 2 /\ name[Len(name)] = ext

\* Every name of the tree in the order Python compares str (by code point:
\* upper case, then "_", then lower case; a prefix before its extensions).
SortedNames ==
    << <<"App", "csproj">>, <<"Deps", "packageset">>, <<"Lib", "cs">>,
       <<"OpmLite", "packageset">>,
       <<"__init__", "py">>, <<"bin">>, <<"build">>, <<"cpanfile">>, <<"deps">>,
       <<"gen", "py">>,
       <<"lib", "rs">>, <<"main", "py">>,
       <<"office", "engineering", "opmlite", "packageset">>,
       <<"opmlite">>, <<"opmlite", "egg-info">>, <<"opmlite", "packageset">>,
       <<"opmlite", "py">>, <<"otools">>, <<"pkgsets">>, <<"src">>,
       <<"tool", "py">>, <<"top", "py">>, <<"util", "py">> >>

NameRank(name) == CHOOSE i \in 1..Len(SortedNames) : SortedNames[i] = name

RECURSIVE PathLess(_, _)
\* Path.__lt__: the lists of parts compared lexicographically.
PathLess(p, q) ==
    IF q = <<>> THEN FALSE
    ELSE IF p = <<>> THEN TRUE
    ELSE IF Head(p) = Head(q) THEN PathLess(Tail(p), Tail(q))
    ELSE NameRank(Head(p)) < NameRank(Head(q))

(***************************************************************************)
(* SKIP_DIRS and should_skip_dir.                                          *)
(***************************************************************************)
SKIP_DIRS ==
    { <<"", "git">>, <<"", "hg">>, <<"", "svn">>, <<"__pycache__">>,
      <<"", "pytest_cache">>, <<"", "mypy_cache">>, <<"", "ruff_cache">>,
      <<"node_modules">>, <<"", "venv">>, <<"venv">>, <<"env">>, <<"", "env">>,
      <<"", "tox">>, <<"build">>, <<"dist">>, <<"*", "egg-info">>, <<"", "eggs">>,
      <<"bin">>, <<"obj">>, <<"packages">>, <<"", "vs">>, <<"", "idea">> }

ShouldSkipExactOnly(dir_name) == dir_name \in SKIP_DIRS

should_skip_dir(dir_name) == dir_name \in SKIP_DIRS \/ EndsWithExt(dir_name, "egg-info")

(***************************************************************************)
(* PackageMatch, lines of text, files.                                     *)
(***************************************************************************)
NoLine == -1    \* PackageMatch.line_number = None

Line(form, name) == [form |-> form, name |-> name]

NoContent == Line("None", <<>>)    \* PackageMatch.line_content = None

PackageMatch(path, match_type, line_number, line_content) ==
    [path |-> path, match_type |-> match_type,
     line_number |-> line_number, line_content |-> line_content]

\* A file: its lines, and how reading it fails: "none"; "open" (open() raises
\* OSError); "read" (OSError after okLines lines were delivered).
File(lines, err, okLines) == [lines |-> lines, err |-> err, okLines |-> okLines]

Absent == File(<<>>, "absent", 0)

Readable(lines) == File(lines, "none", Len(lines))

\* The lines the iteration over an open file delivers before it ends or raises.
Delivered(f) ==
    CASE f.err = "none" -> f.lines
      [] f.err = "read" -> SubSeq(f.lines, 1, f.okLines)
      [] OTHER -> <<>>

Opm == <<"opmlite">>
OpmCased == <<"OpmLite">>

PackageNames == {Opm}

(***************************************************************************)
(* The trees.  Part of the tree is fixed (every denylisted directory holds *)
(* files that would match), part is chosen by Init.                        *)
(***************************************************************************)
MainOptions ==
    { Absent,
      Readable(<<Line("import", Opm), Line("member", Opm)>>),
      File(<<Line("import", Opm), Line("member", Opm)>>, "open", 0),
      File(<<Line("import", Opm), Line("member", Opm)>>, "read", 1) }

UtilOptions ==
    { Absent, Readable(<<Line("member", Opm), Line("from", Opm)>>) }

LibOptions ==
    { Readable(<<Line("using_sub", OpmCased), Line("namespace_sub", OpmCased), Line("member", Opm)>>),
      File(<<Line("namespace_sub", OpmCased), Line("using_sub", Opm)>>, "read", 1) }

DepsOptions ==
    { Absent,
      Readable(<<Line("other", <<>>), Line("id", <<"office", "OpmLite">>), Line("id", Opm)>>),
      Readable(<<Line("mention", OpmCased)>>),
      Readable(<<Line("other", <<>>)>>),
      File(<<Line("id", Opm)>>, "open", 0) }

\* Directories of many files (the trees on which the detector's early exit
\* matters): directory i of BulkDirNames holds files f.d.d.d.d.<BulkExt[i]>,
\* numbered from 1, none of which spells the package name.
BulkDirNames == << <<"vendor_a">>, <<"vendor_b">>, <<"vendor_c">>, <<"vendor_d">> >>

BulkExt == <<"pm", "rs", "pl", "cs">>

BulkSizes == {0, 500, 1001}

Digits == <<"0", "1", "2", "3", "4", "5", "6", "7", "8", "9">>

DigitValue(c) == CHOOSE v \in 0..9 : Digits[v + 1] = c

BulkName(k, ext) ==
    << "f", Digits[((k \div 1000) % 10) + 1], Digits[((k \div 100) % 10) + 1],
       Digits[((k \div 10) % 10) + 1], Digits[(k % 10) + 1], ext >>

\* The number a bulk file name spells, 0 when the name is not of that form.
BulkNumber(name, ext) ==
    IF Len(name) = 6 /\ name[1] = "f" /\ name[6] = ext
       /\ \A j \in 2..5 : name[j] \in SeqToSet(Digits)
    THEN DigitValue(name[2]) * 1000 + DigitValue(name[3]) * 100
         + DigitValue(name[4]) * 10 + DigitValue(name[5])
    ELSE 0

\* A tree: the files Init chooses.  pkg: src/opmlite/ is a package (it holds
\* __init__.py); module: src/opmlite.py exists; code: the C# and Rust sources
\* and the files of the build and egg-info directories exist; bulk: the
\* number of files of each directory of many files.
\* With the canonical pkgsets directory present the walk of the packageset
\* locator never reaches pkgsets/, whose content is then held fixed.
Trees ==
    { t \in [main : MainOptions, util : UtilOptions, lib : LibOptions, deps : DepsOptions,
             office : BOOLEAN, canonical : BOOLEAN,
             pkg : {TRUE}, module : {FALSE}, code : {TRUE}, bulk : {<<>>}] :
        t.canonical => (t.office /\ t.deps = Absent) }

\* The trees with few sources: with or without the package directory, the
\* single-file module, any C# or Rust file; down to the tree that holds no
\* file of a recognized extension at all.
SmallTrees ==
    [main : {Absent}, util : {Absent},
     lib : {Readable(<<Line("using_sub", OpmCased), Line("namespace_sub", OpmCased), Line("member", Opm)>>)},
     deps : {Absent, Readable(<<Line("mention", OpmCased)>>)},
     office : BOOLEAN, canonical : {FALSE},
     pkg : BOOLEAN, module : BOOLEAN, code : BOOLEAN, bulk : {<<>>}]

\* The big trees: MaxBulkDirs directories of many files, beside the C# and
\* Rust sources or nothing.
BigTrees ==
    [main : {Absent}, util : {Absent},
     lib : {Readable(<<Line("using_sub", OpmCased), Line("namespace_sub", OpmCased), Line("member", Opm)>>)},
     deps : {Absent}, office : {FALSE}, canonical : {FALSE},
     pkg : {FALSE}, module : {FALSE}, code : BOOLEAN,
     bulk : [1..MaxBulkDirs -> BulkSizes]]

Init_py == <<"__init__", "py">>
OfficePackageset == <<"office", "engineering", "opmlite", "packageset">>
CanonicalPkgsets == << <<"src">>, <<"otools">>, <<"deps">>, <<"pkgsets">> >>

\* The file at a path of tree t (Absent when there is none).
FileAt(t, p) ==
    CASE p = << <<"main", "py">> >> -> t.main
      [] p = << <<"cpanfile">> >> -> Readable(<<Line("other", <<>>)>>)
      [] p = << <<"src">>, <<"util", "py">> >> -> t.util
      [] p = << <<"src">>, <<"Lib", "cs">> >> -> IF t.code THEN t.lib ELSE Absent
      [] p = << <<"src">>, <<"lib", "rs">> >> ->
            IF t.code THEN Readable(<<Line("use_path", Opm)>>) ELSE Absent
      [] p = << <<"src">>, <<"App", "csproj">> >> -> Readable(<<Line("other", <<>>)>>)
      [] p = << <<"src">>, <<"opmlite", "py">> >> ->
            IF t.module THEN Readable(<<Line("other", <<>>)>>) ELSE Absent
      [] p = << <<"src">>, <<"opmlite">>, Init_py >> ->
            IF t.pkg THEN Readable(<<Line("member", Opm)>>) ELSE Absent
      [] p = << <<"src">>, <<"opmlite">>, <<"bin">>, <<"tool", "py">> >> ->
            IF t.pkg THEN Readable(<<Line("import", Opm)>>) ELSE Absent
      [] p = CanonicalPkgsets \o << <<"OpmLite", "packageset">> >> ->
            IF t.canonical THEN Readable(<<Line("other", <<>>)>>) ELSE Absent
      [] p = << <<"build">>, <<"gen", "py">> >> ->
            IF t.code THEN Readable(<<Line("import", Opm), Line("member", Opm)>>) ELSE Absent
      [] p = << <<"build">>, <<"opmlite", "packageset">> >> ->
            IF t.code THEN Readable(<<Line("id", Opm)>>) ELSE Absent
      [] p = << <<"build">>, <<"opmlite">>, Init_py >> ->
            IF t.code THEN Readable(<<Line("other", <<>>)>>) ELSE Absent
      [] p = << <<"pkgsets">>, OfficePackageset >> ->
            IF t.office THEN Readable(<<Line("id", Opm), Line("mention", Opm)>>) ELSE Absent
      [] p = << <<"pkgsets">>, <<"Deps", "packageset">> >> -> t.deps
      [] p = << <<"opmlite", "egg-info">>, <<"top", "py">> >> ->
            IF t.code THEN Readable(<<Line("using_sub", Opm), Line("import", Opm)>>) ELSE Absent
      [] p = << <<"opmlite", "egg-info">>, <<"opmlite", "py">> >> ->
            IF t.code THEN Readable(<<Line("namespace_sub", Opm)>>) ELSE Absent
      [] OTHER ->
            IF /\ Len(p) = 2
               /\ \E i \in 1..Len(t.bulk) :
                      /\ p[1] = BulkDirNames[i]
                      /\ BulkNumber(p[2], BulkExt[i]) \in 1..t.bulk[i]
            THEN Readable(<<Line("other", <<>>)>>)
            ELSE Absent

\* os.scandir's listing of a directory: the subdirectories and the (candidate)
\* file names, in the order the filesystem returns them, which is not sorted.
Listing(t, d) ==
    CASE d = <<>> ->
            [dirs |-> << <<"src">>, <<"build">>, <<"pkgsets">>, <<"opmlite", "egg-info">> >>
                      \o SubSeq(BulkDirNames, 1, Len(t.bulk)),
             files |-> << <<"main", "py">>, <<"cpanfile">> >>]
      [] d = << <<"src">> >> ->
            [dirs |-> IF t.canonical THEN << <<"opmlite">>, <<"otools">> >>
                                     ELSE << <<"opmlite">> >>,
             files |-> << <<"util", "py">>, <<"lib", "rs">>, <<"opmlite", "py">>,
                          <<"App", "csproj">>, <<"Lib", "cs">> >>]
      [] d = << <<"src">>, <<"opmlite">> >> ->
            [dirs |-> << <<"bin">> >>, files |-> <<Init_py>>]
      [] d = << <<"src">>, <<"opmlite">>, <<"bin">> >> ->
            [dirs |-> <<>>, files |-> << <<"tool", "py">> >>]
      [] d = << <<"src">>, <<"otools">> >> -> [dirs |-> << <<"deps">> >>, files |-> <<>>]
      [] d = << <<"src">>, <<"otools">>, <<"deps">> >> ->
            [dirs |-> << <<"pkgsets">> >>, files |-> <<>>]
      [] d = CanonicalPkgsets ->
            [dirs |-> <<>>, files |-> << <<"OpmLite", "packageset">> >>]
      [] d = << <<"build">> >> ->
            [dirs |-> << <<"opmlite">> >>,
             files |-> << <<"gen", "py">>, <<"opmlite", "packageset">> >>]
      [] d = << <<"build">>, <<"opmlite">> >> -> [dirs |-> <<>>, files |-> <<Init_py>>]
      [] d = << <<"pkgsets">> >> ->
            [dirs |-> <<>>, files |-> <<OfficePackageset, <<"Deps", "packageset">> >>]
      [] d = << <<"opmlite", "egg-info">> >> ->
            [dirs |-> <<>>, files |-> << <<"top", "py">>, <<"opmlite", "py">> >>]
      [] OTHER ->
            IF Len(d) = 1 /\ \E i \in 1..Len(t.bulk) : d[1] = BulkDirNames[i]
            THEN LET i == CHOOSE i \in 1..Len(t.bulk) : d[1] = BulkDirNames[i]
                 IN [dirs |-> <<>>, files |-> [k \in 1..t.bulk[i] |-> BulkName(k, BulkExt[i])]]
            ELSE [dirs |-> <<>>, files |-> <<>>]

\* A directory of many files is listed with exactly the files it holds.
Filenames(t, d) ==
    LET IsThere(n) == FileAt(t, Append(d, n)).err # "absent"
    IN IF Len(d) = 1 /\ \E i \in 1..Len(t.bulk) : d[1] = BulkDirNames[i]
       THEN Listing(t, d).files
       ELSE SelectSeq(Listing(t, d).files, IsThere)

\* A directory of many files has no subdirectory.
Dirnames(t, d) ==
    IF Len(d) = 1 /\ \E i \in 1..Len(t.bulk) : d[1] = BulkDirNames[i]
    THEN <<>>
    ELSE Listing(t, d).dirs

RECURSIVE IsDir(_, _)
\* Path.is_dir(): every name of the path is listed as a directory of its parent.
IsDir(t, d) ==
    \/ d = <<>>
    \/ LET parent == SubSeq(d, 1, Len(d) - 1)
       IN IsDir(t, parent) /\ d[Len(d)] \in SeqToSet(Dirnames(t, parent))

(***************************************************************************)
(* os.walk(top) with the in-place pruning every component applies:         *)
(* dirnames[:] = [d for d in dirnames if not should_skip_dir(d)].          *)
(* The result is the sequence of directories visited, top-down.            *)
(***************************************************************************)
PrunedDirnames(t, d) ==
    LET Keep(n) == ~should_skip_dir(n) IN SelectSeq(Dirnames(t, d), Keep)

RECURSIVE Walk(_, _)
RECURSIVE WalkEach(_, _, _)
Walk(t, top) == <<top>> \o WalkEach(t, top, PrunedDirnames(t, top))

WalkEach(t, d, names) ==
    IF names = <<>> THEN <<>>
    ELSE Walk(t, Append(d, Head(names))) \o WalkEach(t, d, Tail(names))

(***************************************************************************)
(* LANGUAGE_CONFIG, in the iteration order of the dict.                    *)
(***************************************************************************)
LanguageOrder == <<"python", "csharp", "perl", "rust", "packageset">>

Languages == SeqToSet(LanguageOrder)

\* LANGUAGE_CONFIG[lang]["extensions"]
Extensions(lang) ==
    CASE lang = "python" -> {"py", "pyi", "pyx"}
      [] lang = "csharp" -> {"cs", "csx"}
      [] lang = "perl" -> {"pl", "pm", "t", "pod"}
      [] lang = "rust" -> {"rs"}
      [] lang = "packageset" -> {"packageset"}

\* LANGUAGE_CONFIG[lang]["config_files"]
ConfigFiles(lang) ==
    CASE lang = "python" -> { <<"pyproject", "toml">>, <<"setup", "py">>,
                              <<"setup", "cfg">>, <<"requirements", "txt">> }
      [] lang = "csharp" -> { <<"*", "csproj">>, <<"*", "sln">>,
                              <<"packages", "config">>, <<"*", "nuspec">> }
      [] lang = "perl" -> { <<"Makefile", "PL">>, <<"Build", "PL">>, <<"cpanfile">>,
                            <<"META", "json">>, <<"META", "yml">> }
      [] lang = "rust" -> { <<"Cargo", "toml">>, <<"Cargo", "lock">> }
      [] lang = "packageset" -> {}

LANGUAGE_CONFIG(lang) == [extensions |-> Extensions(lang), config_files |-> ConfigFiles(lang)]

ALL_EXTENSIONS == UNION {LANGUAGE_CONFIG(l).extensions : l \in Languages}

\* iter_source_files: the files yielded, in the order of the walk.
iter_source_files(t, root, language, include_configs) ==
    LET known == language # "" /\ language \in Languages
        extensions == IF known THEN LANGUAGE_CONFIG(language).extensions ELSE ALL_EXTENSIONS
        config_files == IF known THEN LANGUAGE_CONFIG(language).config_files
                        ELSE UNION {LANGUAGE_CONFIG(l).config_files : l \in Languages}
        Wanted(filename) == \/ Suffix(filename) \in extensions
                            \/ include_configs /\ filename \in config_files
        Of(dirpath) == LET names == SelectSeq(Filenames(t, dirpath), Wanted)
                       IN [i \in 1..Len(names) |-> Append(dirpath, names[i])]
    IN Concat([i \in 1..Len(Walk(t, root)) |-> Of(Walk(t, root)[i])])

(***************************************************************************)
(* The compiled patterns: the forms a pattern accepts, whether it was      *)
(* compiled with re.IGNORECASE, and the escaped package name it embeds.    *)
(***************************************************************************)
Pattern(forms, ignorecase, name) == [forms |-> forms, ignorecase |-> ignorecase, name |-> name]

\* pattern.search(line)
Search(pattern, line) ==
    /\ line.form \in pattern.forms
    /\ IF pattern.ignorecase THEN Lower(line.name) = Lower(pattern.name)
                             ELSE line.name = pattern.name

get_definition_patterns(package_name, language) ==
    CASE language = "python" -> <<>>
      [] language = "csharp" ->
            << Pattern({"namespace"}, TRUE, package_name),
               Pattern({"namespace_sub"}, TRUE, package_name) >>
      [] language = "perl" ->
            << Pattern({"package"}, FALSE, package_name),
               Pattern({}, FALSE, package_name) >>
      [] language = "rust" ->
            << Pattern({}, FALSE, package_name),
               Pattern({"mod"}, FALSE, package_name),
               Pattern({}, FALSE, package_name) >>
      [] OTHER -> <<>>

get_import_patterns(package_name, language) ==
    CASE language = "python" ->
            << Pattern({"import"}, FALSE, package_name),
               Pattern({"from"}, FALSE, package_name),
               Pattern({"import"}, FALSE, package_name) >>
      [] language = "csharp" ->
            << Pattern({"using"}, TRUE, package_name),
               Pattern({"using_sub"}, TRUE, package_name),
               Pattern({}, TRUE, package_name),
               Pattern({}, TRUE, package_name) >>
      [] language = "perl" ->
            << Pattern({"use"}, FALSE, package_name),
               Pattern({"use_path"}, FALSE, package_name),
               Pattern({}, FALSE, package_name),
               Pattern({}, FALSE, package_name) >>
      [] language = "rust" ->
            << Pattern({"use"}, FALSE, package_name),
               Pattern({"use_path"}, FALSE, package_name),
               Pattern({}, FALSE, package_name),
               Pattern({}, FALSE, package_name),
               Pattern({}, FALSE, package_name),
               Pattern({}, FALSE, package_name) >>
      [] OTHER -> <<>>

\* get_usage_pattern: a sequence of no pattern (None) or one.
get_usage_pattern(package_name, language) ==
    CASE language = "python" ->
            << Pattern({"from", "member", "using_sub", "namespace_sub"}, FALSE, package_name) >>
      [] language = "csharp" ->
            << Pattern({"from", "member", "using_sub", "namespace_sub"}, TRUE, package_name) >>
      [] language = "perl" -> << Pattern({"use_path"}, FALSE, package_name) >>
      [] language = "rust" -> << Pattern({"use_path"}, FALSE, package_name) >>
      [] OTHER -> <<>>

\* for pattern in patterns: if pattern.search(line): ...; break
AnySearch(patterns, line) == \E k \in 1..Len(patterns) : Search(patterns[k], line)

(***************************************************************************)
(* search_file_for_imports and search_files_batch.                         *)
(***************************************************************************)
UsageIgnoringImport(is_import, usage_pattern, line) == AnySearch(usage_pattern, line)

\* if not is_import and usage_pattern and usage_pattern.search(line)
IsUsageLine(is_import, usage_pattern, line) ==
    ~is_import /\ AnySearch(usage_pattern, line)

\* The matches of the lines read before an OSError are kept: the except clause
\* passes and the lists built so far are returned.
search_file_for_imports(t, filepath, package_name, language) ==
    LET import_patterns == get_import_patterns(package_name, language)
        usage_pattern == get_usage_pattern(package_name, language)
        lines == Delivered(FileAt(t, filepath))
        ImportAt(n) == AnySearch(import_patterns, lines[n])
        UsageAt(n) == IsUsageLine(ImportAt(n), usage_pattern, lines[n])
        Nums(Hit(_)) == SelectSeq([n \in 1..Len(lines) |-> n], Hit)
        Matches(nums, match_type) ==
            [k \in 1..Len(nums) |-> PackageMatch(filepath, match_type, nums[k], lines[nums[k]])]
    IN [imports |-> Matches(Nums(ImportAt), "import"),
        usages |-> Matches(Nums(UsageAt), "usage")]

search_files_batch(t, filepaths, package_name, language) ==
    LET Of(filepath) == search_file_for_imports(t, filepath, package_name, language)
        Imports(filepath) == Of(filepath).imports
        Usages(filepath) == Of(filepath).usages
    IN [imports |-> Concat([i \in 1..Len(filepaths) |-> Imports(filepaths[i])]),
        usages |-> Concat([i \in 1..Len(filepaths) |-> Usages(filepaths[i])])]

(***************************************************************************)
(* find_package_definition.                                                *)
(***************************************************************************)
RootName == <<"repo">>     \* the name of the root directory itself

\* Path(dirpath).name
DirName(dirpath) == IF dirpath = <<>> THEN RootName ELSE dirpath[Len(dirpath)]

PackageDirectoriesOnly(t, root, package_name) ==
    LET Package(dirpath) ==
            IF DirName(dirpath) = package_name /\ Init_py \in SeqToSet(Filenames(t, dirpath))
            THEN << PackageMatch(Append(dirpath, Init_py), "definition", NoLine, NoContent) >>
            ELSE <<>>
    IN Concat([i \in 1..Len(Walk(t, root)) |-> Package(Walk(t, root)[i])])

\* if language == "python": the directory structure decides.
StructuralDefinitions(t, root, package_name) ==
    LET module_file == Append(package_name, "py")
        Structural(dirpath) ==
            LET filenames == SeqToSet(Filenames(t, dirpath))
            IN (IF DirName(dirpath) = package_name /\ Init_py \in filenames
                THEN << PackageMatch(Append(dirpath, Init_py), "definition", NoLine, NoContent) >>
                ELSE <<>>)
               \o
               (IF module_file \in filenames
                THEN << PackageMatch(Append(dirpath, module_file), "definition", NoLine, NoContent) >>
                ELSE <<>>)
    IN Concat([i \in 1..Len(Walk(t, root)) |-> Structural(Walk(t, root)[i])])

\* else: the declarations in the files of the language.
LexicalDefinitions(t, root, package_name, language) ==
    LET extensions == LANGUAGE_CONFIG(language).extensions
        definition_patterns == get_definition_patterns(package_name, language)
        InFile(filepath) ==
            LET lines == Delivered(FileAt(t, filepath))
                Hit(n) == AnySearch(definition_patterns, lines[n])
                nums == SelectSeq([n \in 1..Len(lines) |-> n], Hit)
            IN [k \in 1..Len(nums) |->
                    PackageMatch(filepath, "definition", nums[k], lines[nums[k]])]
        Lexical(dirpath) ==
            LET Wanted(filename) == Suffix(filename) \in extensions
                names == SelectSeq(Filenames(t, dirpath), Wanted)
            IN Concat([i \in 1..Len(names) |-> InFile(Append(dirpath, names[i]))])
    IN Concat([i \in 1..Len(Walk(t, root)) |-> Lexical(Walk(t, root)[i])])

find_package_definition(t, root, package_name, language) ==
    IF language = "python" THEN StructuralDefinitions(t, root, package_name)
                           ELSE LexicalDefinitions(t, root, package_name, language)

(***************************************************************************)
(* find_packageset_definition.                                             *)
(***************************************************************************)
\* whole.endswith("." + part), on names: part is a proper suffix of whole
\* that starts at a dot.
IsSuffixOf(part, whole) ==
    Len(whole) > Len(part) /\ SubSeq(whole, Len(whole) - Len(part) + 1, Len(whole)) = part

\* part in whole, on names that are compared component by component.
ContainsName(whole, part) ==
    \E i \in 1..(Len(whole) - Len(part) + 1) : SubSeq(whole, i, i + Len(part) - 1) = part

\* filename.rsplit(".packageset", 1)[0].lower()
filename_base(filename) == Lower(SubSeq(filename, 1, Len(filename) - 1))

\* Check 1: the filename matches the package name.
FilenameMatches(filename, package_name) ==
    LET package_lower == Lower(package_name)
    IN filename_base(filename) = package_lower \/ IsSuffixOf(package_lower, filename_base(filename))

\* Check 2: re.search(id_pattern, content, re.IGNORECASE); the line of the
\* first match, 0 when there is none.
IdLine(content, package_name) ==
    LET Hit(n) == /\ content[n].form = "id"
                  /\ ContainsName(Lower(content[n].name), Lower(package_name))
        hits == {n \in 1..Len(content) : Hit(n)}
    IN IF hits = {} THEN 0 ELSE CHOOSE n \in hits : \A m \in hits : n <= m

\* Check 3: package_lower in content.lower()
Mentions(content, package_name) ==
    \E n \in 1..Len(content) : ContainsName(Lower(content[n].name), Lower(package_name))

ContentChecks(t, filepath, package_name) ==
    LET f == FileAt(t, filepath)
        content == f.lines
        line_num == IdLine(content, package_name)
    IN IF f.err # "none" THEN <<>>       \* except (OSError, PermissionError): pass
       ELSE IF line_num > 0
            THEN << PackageMatch(filepath, "definition", line_num, content[line_num]) >>
       ELSE IF Mentions(content, package_name)
            THEN << PackageMatch(filepath, "import", NoLine,
                                 Line("References in content", package_name)) >>
       ELSE <<>>

FilenameCheckFallsThrough(t, filepath, package_name) ==
    LET filename == filepath[Len(filepath)]
    IN (IF FilenameMatches(filename, package_name)
        THEN << PackageMatch(filepath, "definition", NoLine, Line("Filename match", filename)) >>
        ELSE <<>>)
       \o ContentChecks(t, filepath, package_name)

\* The body of the loop over the .packageset files: the matches one file adds.
PackagesetFileMatches(t, filepath, package_name) ==
    LET filename == filepath[Len(filepath)]
    IN IF FilenameMatches(filename, package_name)
       THEN << PackageMatch(filepath, "definition", NoLine, Line("Filename match", filename)) >>
       ELSE ContentChecks(t, filepath, package_name)

\* The directory the packageset walk starts from.
pkgset_root(t, root) ==
    IF IsDir(t, root \o CanonicalPkgsets) THEN root \o CanonicalPkgsets ELSE root

\* The .packageset files the locator examines, in the order of the walk.
PackagesetFiles(t, root) ==
    LET IsPackageset(filename) == EndsWithExt(filename, "packageset")
        Of(dirpath) == LET names == SelectSeq(Filenames(t, dirpath), IsPackageset)
                       IN [i \in 1..Len(names) |-> Append(dirpath, names[i])]
    IN Concat([i \in 1..Len(Walk(t, pkgset_root(t, root))) |-> Of(Walk(t, pkgset_root(t, root))[i])])

find_packageset_definition(t, root, package_name) ==
    LET Of(filepath) == PackagesetFileMatches(t, filepath, package_name)
    IN Concat([i \in 1..Len(PackagesetFiles(t, root)) |-> Of(PackagesetFiles(t, root)[i])])

(***************************************************************************)
(* detect_language.                                                        *)
(***************************************************************************)
\* for lang, config in LANGUAGE_CONFIG.items(): if suffix in extensions: ... break
LanguageOf(filename) ==
    LET suffix == Suffix(filename)
        hits == {i \in 1..Len(LanguageOrder) : suffix \in Extensions(LanguageOrder[i])}
    IN IF hits = {} THEN "" ELSE LanguageOrder[CHOOSE i \in hits : \A j \in hits : i <= j]

RECURSIVE SumCounts(_, _)
SumCounts(counts, langs) ==
    IF langs = {} THEN 0
    ELSE LET l == CHOOSE x \in langs : TRUE IN counts[l] + SumCounts(counts, langs \ {l})

CountDir(t, dirpath, counts) ==
    LET filenames == Filenames(t, dirpath)
        Has(l) == LET Counted(filename) == LanguageOf(filename) = l
                  IN Len(SelectSeq(filenames, Counted))
    IN [python |-> counts.python + Has("python"),
        csharp |-> counts.csharp + Has("csharp"),
        perl |-> counts.perl + Has("perl"),
        rust |-> counts.rust + Has("rust"),
        packageset |-> counts.packageset + Has("packageset")]

RECURSIVE DetectLoopExhaustive(_, _, _, _)
DetectLoopExhaustive(t, dirs, counts, scanned) ==
    IF dirs = <<>> THEN [counts |-> counts, scanned |-> scanned]
    ELSE DetectLoopExhaustive(t, Tail(dirs), CountDir(t, Head(dirs), counts),
                              Append(scanned, Head(dirs)))

RECURSIVE DetectLoop(_, _, _, _)
\* The walk of detect_language: the counts and the directories scanned when
\* the loop ends, by exhaustion or by the early exit.
DetectLoop(t, dirs, counts, scanned) ==
    IF dirs = <<>> THEN [counts |-> counts, scanned |-> scanned]
    ELSE LET next == CountDir(t, Head(dirs), counts)
         IN IF SumCounts(next, Languages) > EarlyExitThreshold
            THEN [counts |-> next, scanned |-> Append(scanned, Head(dirs))]
            ELSE DetectLoop(t, Tail(dirs), next, Append(scanned, Head(dirs)))

\* counts = {lang: 0 for lang in LANGUAGE_CONFIG}
NoCounts == [python |-> 0, csharp |-> 0, perl |-> 0, rust |-> 0, packageset |-> 0]

DetectScan(t, root) == DetectLoop(t, Walk(t, root), NoCounts, <<>>)

DetectLastMaximum(t, root) ==
    LET counts == DetectScan(t, root).counts
        top == CHOOSE n \in {counts[l] : l \in Languages} : \A l \in Languages : counts[l] <= n
        last == CHOOSE i \in 1..Len(LanguageOrder) :
                    /\ counts[LanguageOrder[i]] = top
                    /\ \A j \in (i + 1)..Len(LanguageOrder) : counts[LanguageOrder[j]] # top
    IN IF top = 0 THEN "csharp" ELSE LanguageOrder[last]

DetectWithoutDefault(t, root) ==
    LET counts == DetectScan(t, root).counts
        top == CHOOSE n \in {counts[l] : l \in Languages} : \A l \in Languages : counts[l] <= n
        first == CHOOSE i \in 1..Len(LanguageOrder) :
                    /\ counts[LanguageOrder[i]] = top
                    /\ \A j \in 1..(i - 1) : counts[LanguageOrder[j]] # top
    IN LanguageOrder[first]

detect_language(t, root) ==
    LET counts == DetectScan(t, root).counts
        top == CHOOSE n \in {counts[l] : l \in Languages} : \A l \in Languages : counts[l] <= n
        first == CHOOSE i \in 1..Len(LanguageOrder) :
                    /\ counts[LanguageOrder[i]] = top
                    /\ \A j \in 1..(i - 1) : counts[LanguageOrder[j]] # top
    IN IF top = 0 THEN "csharp" ELSE LanguageOrder[first]

(***************************************************************************)
(* result.imports.sort(key=lambda m: (m.path, m.line_number or 0)):        *)
(* list.sort is stable.                                                    *)
(***************************************************************************)
\* m.line_number or 0
LineOrZero(m) == IF m.line_number = NoLine THEN 0 ELSE m.line_number

KeyLessIgnoringPath(a, b) == LineOrZero(a) < LineOrZero(b)

\* key(a) < key(b) for the key (m.path, m.line_number or 0)
KeyLess(a, b) ==
    \/ PathLess(a.path, b.path)
    \/ a.path = b.path /\ LineOrZero(a) < LineOrZero(b)

RECURSIVE InsertStable(_, _)
\* x inserted into a sorted list after every element whose key is not greater.
InsertStable(sorted, x) ==
    IF sorted = <<>> THEN <<x>>
    ELSE IF KeyLess(x, Head(sorted)) THEN <<x>> \o sorted
    ELSE <<Head(sorted)>> \o InsertStable(Tail(sorted), x)

RECURSIVE SortFrom(_, _)
SortFrom(sorted, rest) ==
    IF rest = <<>> THEN sorted ELSE SortFrom(InsertStable(sorted, Head(rest)), Tail(rest))

SortSkipped(matches) == matches

SortMatches(matches) == SortFrom(<<>>, matches)

(***************************************************************************)
(* format_results: the lines of the human-readable output.                 *)
(***************************************************************************)
NoMatch == PackageMatch(<<>>, "", NoLine, NoContent)

OutLine(kind, category, count, match) ==
    [kind |-> kind, category |-> category, count |-> count, match |-> match]

\* seq[:n]
Prefix(seq, n) ==
    IF n >= 0 THEN SubSeq(seq, 1, IF n < Len(seq) THEN n ELSE Len(seq))
    ELSE SubSeq(seq, 1, IF Len(seq) + n > 0 THEN Len(seq) + n ELSE 0)

\* SearchResult.found
found(r) == r.definitions # <<>> \/ r.imports # <<>> \/ r.usages # <<>>

\* The block of the definitions: a header and the paths shown.
DefinitionsBlock(matches, max_items) ==
    IF matches = <<>> THEN <<>>
    ELSE LET shown == Prefix(matches, max_items)
         IN << OutLine("header", "definitions", Len(matches), NoMatch),
               OutLine("rule", "definitions", 0, NoMatch) >>
            \o [i \in 1..Len(shown) |-> OutLine("entry", "definitions", 0, shown[i])]

\* The block of the imports or of the usages: a header, the entries shown, each
\* followed by its line content when it has one, and the "... and N more" line.
ListedBlock(category, matches, max_items) ==
    IF matches = <<>> THEN <<>>
    ELSE LET shown == Prefix(matches, max_items)
             Entry(m) == << OutLine("entry", category, 0, m) >>
                         \o (IF m.line_content # NoContent
                             THEN << OutLine("content", category, 0, m) >> ELSE <<>>)
         IN << OutLine("header", category, Len(matches), NoMatch),
               OutLine("rule", category, 0, NoMatch) >>
            \o Concat([i \in 1..Len(shown) |-> Entry(shown[i])])
            \o (IF Len(matches) > max_items
                THEN << OutLine("more", category, Len(matches) - max_items, NoMatch) >>
                ELSE <<>>)

format_results(r, max_items) ==
    << OutLine("title", "", 0, NoMatch), OutLine("rule", "", 0, NoMatch) >>
    \o (IF ~found(r) THEN << OutLine("no matches", "", 0, NoMatch) >>
        ELSE DefinitionsBlock(r.definitions, max_items)
             \o ListedBlock("imports", r.imports, max_items)
             \o ListedBlock("usages", r.usages, max_items)
             \o << OutLine("rule", "summary", 0, NoMatch),
                   OutLine("summary", "", 0, NoMatch),
                   OutLine("summary", "definitions", Len(r.definitions), NoMatch),
                   OutLine("summary", "imports", Len(r.imports), NoMatch),
                   OutLine("summary", "usages", Len(r.usages), NoMatch) >>)

\* json.dumps(output): every match of every category, none truncated.
json_output(r) ==
    LET Items(category, matches) ==
            [i \in 1..Len(matches) |-> OutLine("json", category, 0, matches[i])]
    IN << OutLine("json found", "", IF found(r) THEN 1 ELSE 0, NoMatch) >>
       \o Items("definitions", r.definitions)
       \o Items("imports", r.imports)
       \o Items("usages", r.usages)

(***************************************************************************)
(* The state of one query.                                                 *)
(***************************************************************************)
VARIABLES
    fs,                  \* the tree below the root
    entry,               \* "cli": main() runs; "api": find_package is called directly
    root_kind,           \* args.root: "missing", "file" or "dir"
    pc,                  \* the position of the coordinating process
    package_name,        \* find_package's arguments
    language,
    search_packagesets,
    max_workers,         \* 0 is None
    batch_size,
    packageset_matches,
    result,              \* the SearchResult
    all_files,
    batches,
    batch_i,             \* the sequential loop: batches done
    futures,             \* the pool: per batch, [state, imports, usages]
    completed,           \* the batches in the order their workers finished
    gathered,            \* how many of them as_completed has handed out
    visited,             \* every directory an os.walk has yielded
    max_items,           \* args.max_results when the result was formatted, else -1
    output,              \* what main() printed
    exit_code,           \* the process exit status, -1 while running
    lang_arg,            \* the language find_package was called with
    steps                \* the steps of find_package begun so far, in order

vars == << fs, entry, root_kind, pc, package_name, language, search_packagesets,
           max_workers, batch_size, packageset_matches, result, all_files, batches,
           batch_i, futures, completed, gathered, visited, max_items, output, exit_code,
           lang_arg, steps >>

Root == <<>>

Running == 0 - 1

SearchResult(name, lang) ==
    [package_name |-> name, language |-> lang,
     definitions |-> <<>>, imports |-> <<>>, usages |-> <<>>]

Init ==
    /\ fs \in Trees \cup SmallTrees
    /\ \/ entry = "cli" /\ root_kind \in {"missing", "file", "dir"}
       \/ entry = "api" /\ root_kind = "dir"
    /\ pc = IF entry = "cli" THEN "main" ELSE "call"
    /\ package_name = <<>>
    /\ language = ""
    /\ search_packagesets = TRUE
    /\ max_workers = 0
    /\ batch_size = DefaultBatchSize
    /\ packageset_matches = <<>>
    /\ result = SearchResult(<<>>, "")
    /\ all_files = <<>>
    /\ batches = <<>>
    /\ batch_i = 0
    /\ futures = <<>>
    /\ completed = <<>>
    /\ gathered = 0
    /\ visited = {}
    /\ max_items = Running
    /\ output = <<>>
    /\ exit_code = Running
    /\ lang_arg = ""
    /\ steps = <<>>

\* The record of a step: its first occurrence is kept.
Begun(done, step) == IF step \in SeqToSet(done) THEN done ELSE Append(done, step)

\* main: the root is validated before anything is scanned.
ValidateRoot ==
    /\ pc = "main"
    /\ IF root_kind = "dir"
       THEN pc' = "call" /\ exit_code' = exit_code
       ELSE pc' = "exited" /\ exit_code' = 1
    /\ steps' = steps
    /\ UNCHANGED << fs, lang_arg, entry, root_kind, package_name, language, search_packagesets,
                    max_workers, batch_size, packageset_matches, result, all_files,
                    batches, batch_i, futures, completed, gathered, visited, max_items, output >>

\* The call of find_package.  (max_workers and batch_size are drawn where the
\* code first reads them, in Dispatch.)
CallFindPackage ==
    /\ pc = "call"
    /\ package_name' \in PackageNames
    /\ language' \in {"auto", "python", "csharp", "perl", "rust"}
    /\ search_packagesets' \in BOOLEAN
    /\ pc' = "step0"
    /\ lang_arg' = language'
    /\ steps' = steps
    /\ UNCHANGED << fs, entry, root_kind, max_workers, batch_size, packageset_matches, result, all_files, batches,
                    batch_i, futures, completed, gathered, visited, max_items, output, exit_code >>

PackagesetSearchAlways ==
    /\ pc = "step0"
    /\ packageset_matches' = find_packageset_definition(fs, Root, package_name)
    /\ visited' = visited \cup SeqToSet(Walk(fs, pkgset_root(fs, Root)))
    /\ pc' = "detect"
    /\ steps' = Begun(steps, "packageset_search")
    /\ UNCHANGED << fs, lang_arg, entry, root_kind, package_name, language, search_packagesets,
                    max_workers, batch_size, result, all_files, batches, batch_i,
                    futures, completed, gathered, max_items, output, exit_code >>

\* Step 0: the packageset search.
PackagesetSearch ==
    /\ pc = "step0"
    /\ IF search_packagesets
       THEN /\ packageset_matches' = find_packageset_definition(fs, Root, package_name)
            /\ visited' = visited \cup SeqToSet(Walk(fs, pkgset_root(fs, Root)))
       ELSE UNCHANGED << packageset_matches, visited >>
    /\ pc' = "detect"
    /\ steps' = IF search_packagesets THEN Begun(steps, "packageset_search") ELSE steps
    /\ UNCHANGED << fs, lang_arg, entry, root_kind, package_name, language, search_packagesets,
                    max_workers, batch_size, result, all_files, batches, batch_i,
                    futures, completed, gathered, max_items, output, exit_code >>

\* for match in packageset_matches: definitions or imports
WithPackagesetMatches(r, matches) ==
    LET IsDef(m) == m.match_type = "definition"
        IsRef(m) == m.match_type # "definition"
    IN [r EXCEPT !.definitions = @ \o SelectSeq(matches, IsDef),
                 !.imports = @ \o SelectSeq(matches, IsRef)]

\* The language is resolved, the SearchResult is created and receives the
\* packageset matches.
ResolveLanguage ==
    /\ pc = "detect"
    /\ LET lang == IF language = "auto" THEN detect_language(fs, Root) ELSE language
       IN /\ language' = lang
          /\ result' = WithPackagesetMatches(SearchResult(package_name, lang),
                                             packageset_matches)
    /\ visited' = IF language = "auto"
                  THEN visited \cup SeqToSet(DetectScan(fs, Root).scanned)
                  ELSE visited
    /\ pc' = "step1"
    /\ steps' = IF language = "auto" THEN Begun(steps, "detect_language") ELSE steps
    /\ UNCHANGED << fs, lang_arg, entry, root_kind, package_name, search_packagesets, max_workers,
                    batch_size, packageset_matches, all_files, batches, batch_i,
                    futures, completed, gathered, max_items, output, exit_code >>

\* Step 1: the definitions in the source code.
FindDefinitions ==
    /\ pc = "step1"
    /\ result' = [result EXCEPT !.definitions =
                     @ \o find_package_definition(fs, Root, package_name, language)]
    /\ visited' = visited \cup SeqToSet(Walk(fs, Root))
    /\ pc' = "step2"
    /\ steps' = Begun(steps, "definition_search")
    /\ UNCHANGED << fs, lang_arg, entry, root_kind, package_name, language, search_packagesets,
                    max_workers, batch_size, packageset_matches, all_files, batches,
                    batch_i, futures, completed, gathered, max_items, output, exit_code >>

SplitOverlapping(files, size) ==
    LET count == (Len(files) + size - 1) \div size
        Last(k) == IF k * size + 1 < Len(files) THEN k * size + 1 ELSE Len(files)
    IN [k \in 1..count |-> SubSeq(files, (k - 1) * size + 1, Last(k))]

\* [all_files[i : i + batch_size] for i in range(0, len(all_files), batch_size)]
SplitBatches(files, size) ==
    LET count == (Len(files) + size - 1) \div size
        Last(k) == IF k * size < Len(files) THEN k * size ELSE Len(files)
    IN [k \in 1..count |-> SubSeq(files, (k - 1) * size + 1, Last(k))]

\* Step 2: the files are collected.
CollectFiles ==
    /\ pc = "step2"
    /\ all_files' = iter_source_files(fs, Root, language, TRUE)
    /\ visited' = visited \cup SeqToSet(Walk(fs, Root))
    /\ pc' = "step3"
    /\ steps' = Begun(steps, "collect_files")
    /\ UNCHANGED << fs, lang_arg, entry, root_kind, package_name, language, search_packagesets,
                    max_workers, batch_size, packageset_matches, result, batches,
                    batch_i, futures, completed, gathered, max_items, output, exit_code >>

PoolWheneverBatched(batch_list, workers) == Len(batch_list) > 1

\* if len(batches) > 1 and max_workers != 1
UsesPool(batch_list, workers) == Len(batch_list) > 1 /\ workers # 1

Pending == [state |-> "pending", imports |-> <<>>, usages |-> <<>>]

\* Step 3: the files are split into batches; every batch is submitted to the
\* pool, or the sequential loop starts.  main passes args.workers and leaves
\* the batch size at its default, another caller passes any batch size.
Dispatch ==
    /\ pc = "step3"
    /\ max_workers' \in 0..MaxWorkers
    /\ batch_size' \in IF entry = "cli" THEN {DefaultBatchSize}
                                        ELSE (1..MaxBatchSize) \cup {DefaultBatchSize}
    /\ batches' = SplitBatches(all_files, batch_size')
    /\ IF UsesPool(batches', max_workers')
       THEN /\ futures' = [i \in 1..Len(batches') |-> Pending]
            /\ pc' = "pool"
       ELSE /\ futures' = futures
            /\ pc' = "sequential"
    /\ steps' = IF UsesPool(batches', max_workers') THEN Begun(steps, "scan") ELSE steps
    /\ UNCHANGED << fs, lang_arg, entry, root_kind, package_name, language, search_packagesets,
                    packageset_matches, result, all_files, batch_i, completed, gathered,
                    visited, max_items, output, exit_code >>

\* One iteration of "for batch in batches" in the coordinating process; the
\* loop ends when no batch is left.
SequentialBatch ==
    /\ pc = "sequential"
    /\ IF batch_i < Len(batches)
       THEN LET got == search_files_batch(fs, batches[batch_i + 1], package_name, language)
            IN /\ result' = [result EXCEPT !.imports = @ \o got.imports,
                                           !.usages = @ \o got.usages]
               /\ batch_i' = batch_i + 1
               /\ pc' = pc
       ELSE /\ pc' = "sort"
            /\ UNCHANGED << result, batch_i >>
    /\ steps' = IF batch_i < Len(batches) THEN Begun(Begun(steps, "scan"), "merge") ELSE steps
    /\ UNCHANGED << fs, lang_arg, entry, root_kind, package_name, language, search_packagesets,
                    max_workers, batch_size, packageset_matches, all_files, batches,
                    futures, completed, gathered, visited, max_items, output, exit_code >>

\* ProcessPoolExecutor(max_workers): None is the number of processors.
PoolSize == IF max_workers = 0 THEN MaxWorkers ELSE max_workers

\* The pool runs the batches in the order submitted, PoolSize at a time: batch
\* i is running when fewer than PoolSize batches submitted before it are
\* unfinished.
IsRunning(i) ==
    /\ futures[i].state = "pending"
    /\ Cardinality({j \in 1..(i - 1) : futures[j].state = "pending"}) < PoolSize

\* A worker finishes batch i: with the result of search_files_batch, or by
\* failing (the worker process dies, the result cannot be sent back).
WorkerFinishes(i, ok) ==
    /\ pc = "pool"
    /\ i \in 1..Len(batches)
    /\ IsRunning(i)
    /\ LET got == search_files_batch(fs, batches[i], package_name, language)
       IN futures' = [futures EXCEPT ![i] =
                         IF ok THEN [state |-> "done", imports |-> got.imports,
                                     usages |-> got.usages]
                         ELSE [state |-> "failed", imports |-> <<>>, usages |-> <<>>]]
    /\ completed' = Append(completed, i)
    /\ steps' = steps
    /\ UNCHANGED << fs, lang_arg, entry, root_kind, pc, package_name, language, search_packagesets,
                    max_workers, batch_size, packageset_matches, result, all_files,
                    batches, batch_i, gathered, visited, max_items, output, exit_code >>

FailureSwallowed(future) == FALSE

SortsAfterFirst(n) == n >= 1

\* as_completed is exhausted when every future has been handed out.
Exhausted(n) == n = Len(batches)

\* future.result() raises the exception of a failed worker.
ResultRaises(future) == future.state = "failed"

\* for future in as_completed(futures): one iteration, on the next future in
\* the order of completion.
Gather ==
    /\ pc = "pool"
    /\ gathered < Len(completed)
    /\ LET future == futures[completed[gathered + 1]]
       IN IF ResultRaises(future)
          THEN /\ pc' = "raised"
               /\ UNCHANGED << result, gathered >>
          ELSE /\ result' = [result EXCEPT !.imports = @ \o future.imports,
                                           !.usages = @ \o future.usages]
               /\ gathered' = gathered + 1
               /\ pc' = IF Exhausted(gathered + 1) THEN "sort" ELSE pc
    /\ steps' = IF ResultRaises(futures[completed[gathered + 1]]) THEN steps ELSE Begun(steps, "merge")
    /\ UNCHANGED << fs, lang_arg, entry, root_kind, package_name, language, search_packagesets,
                    max_workers, batch_size, packageset_matches, all_files, batches,
                    batch_i, futures, completed, visited, max_items, output, exit_code >>

\* The two lists are sorted and find_package returns.
SortAndReturn ==
    /\ pc = "sort"
    /\ result' = [result EXCEPT !.imports = SortMatches(@), !.usages = SortMatches(@)]
    /\ pc' = "returned"
    /\ steps' = Begun(steps, "sort")
    /\ UNCHANGED << fs, lang_arg, entry, root_kind, package_name, language, search_packagesets,
                    max_workers, batch_size, packageset_matches, all_files, batches,
                    batch_i, futures, completed, gathered, visited, max_items, output, exit_code >>

ExitByDefinitions(r) == IF r.definitions # <<>> THEN 0 ELSE 1

\* sys.exit(0 if result.found else 1)
ExitStatus(r) == IF found(r) THEN 0 ELSE 1

\* main prints the result, as JSON or formatted, and exits.
OutputAndExit ==
    /\ pc = "returned"
    /\ entry = "cli"
    /\ \/ max_items' = max_items /\ output' = json_output(result)
       \/ max_items' \in 0..MaxItems /\ output' = format_results(result, max_items')
    /\ exit_code' = ExitStatus(result)
    /\ pc' = "exited"
    /\ steps' = steps
    /\ UNCHANGED << fs, lang_arg, entry, root_kind, package_name, language, search_packagesets,
                    max_workers, batch_size, packageset_matches, result, all_files,
                    batches, batch_i, futures, completed, gathered, visited >>

Next ==
    \/ ValidateRoot
    \/ CallFindPackage
    \/ PackagesetSearch
    \/ ResolveLanguage
    \/ FindDefinitions
    \/ CollectFiles
    \/ Dispatch
    \/ SequentialBatch
    \/ \E i \in 1..Len(batches), ok \in BOOLEAN : WorkerFinishes(i, ok)
    \/ Gather
    \/ SortAndReturn
    \/ OutputAndExit

Spec == Init /\ [][Next]_vars

(***************************************************************************)
(* The detector alone, on the big trees: find_package was called with      *)
(* language "auto" and without the packageset search, and is about to      *)
(* call detect_language.                                                   *)
(***************************************************************************)
DetectInit ==
    /\ fs \in BigTrees
    /\ entry = "api"
    /\ root_kind = "dir"
    /\ pc = "detect"
    /\ package_name = Opm
    /\ language = "auto"
    /\ lang_arg = "auto"
    /\ search_packagesets = FALSE
    /\ max_workers = 0
    /\ batch_size = DefaultBatchSize
    /\ packageset_matches = <<>>
    /\ result = SearchResult(<<>>, "")
    /\ all_files = <<>>
    /\ batches = <<>>
    /\ batch_i = 0
    /\ futures = <<>>
    /\ completed = <<>>
    /\ gathered = 0
    /\ visited = {}
    /\ max_items = Running
    /\ output = <<>>
    /\ exit_code = Running
    /\ steps = <<>>

DetectNext == ResolveLanguage

DetectSpec == DetectInit /\ [][DetectNext]_vars

(***************************************************************************)
(* Properties.                                                             *)
(***************************************************************************)
Returned == pc = "returned" \/ (pc = "exited" /\ root_kind = "dir")

AllMatches == result.definitions \o result.imports \o result.usages

\* The lists find_package holds before the scan: the packageset references.
BeforeScan == WithPackagesetMatches(SearchResult(package_name, language), packageset_matches)

RECURSIVE SequentialLoop(_, _)
\* for batch in batches: ... extend: the sequential branch of find_package.
SequentialLoop(r, batch_list) ==
    IF batch_list = <<>> THEN r
    ELSE LET got == search_files_batch(fs, Head(batch_list), package_name, language)
         IN SequentialLoop([r EXCEPT !.imports = @ \o got.imports,
                                     !.usages = @ \o got.usages], Tail(batch_list))

\* What find_package returns for this tree, package and language when it runs
\* with max_workers = 1 and the default batch size.
SequentialRun ==
    LET r == SequentialLoop(BeforeScan, SplitBatches(all_files, DefaultBatchSize))
    IN [imports |-> SortMatches(r.imports), usages |-> SortMatches(r.usages)]

\* C1: whatever the worker count, the batch size and the order in which the
\* batches complete, find_package returns the imports and usages lists, in the
\* same order, that the sequential run returns.
C1_SameAsSequential ==
    Returned =>
        /\ result.imports = SequentialRun.imports
        /\ result.usages = SequentialRun.usages

\* A pool run returned whose batches completed out of order, with imports
\* from more than one file.
C1_Witness ==
    /\ pc = "returned"
    /\ UsesPool(batches, max_workers)
    /\ Len(batches) = 3
    /\ completed[1] # 1
    /\ \E i, j \in 1..Len(result.imports) : result.imports[i].path # result.imports[j].path

\* (path, line number or 0) of a is not greater than that of b.
C2_NotAfter(a, b) ==
    LET la == IF a.line_number = NoLine THEN 0 ELSE a.line_number
        lb == IF b.line_number = NoLine THEN 0 ELSE b.line_number
    IN PathLess(a.path, b.path) \/ (a.path = b.path /\ la <= lb)

C2_Ascending(matches) ==
    \A i, j \in 1..Len(matches) : i < j => C2_NotAfter(matches[i], matches[j])

\* C2: in every SearchResult returned, imports and usages are sorted ascending
\* by (path, line number or 0), packageset references included.
C2_Sorted == Returned => C2_Ascending(result.imports) /\ C2_Ascending(result.usages)

\* A result of more than one batch whose imports hold a packageset reference
\* (no line number) behind a match of the scan.
C2_Witness ==
    /\ pc = "returned"
    /\ Len(batches) > 1
    /\ \E i \in 2..Len(result.imports) : result.imports[i].line_number = NoLine
    /\ Len(result.usages) > 1

C3_Keys(matches) == {<<matches[i].path, matches[i].line_number>> : i \in 1..Len(matches)}

\* The lines of the collected files that match an import pattern and the
\* usage pattern.
C3_BothLines ==
    LET Both(line) == /\ AnySearch(get_import_patterns(package_name, language), line)
                      /\ AnySearch(get_usage_pattern(package_name, language), line)
        Of(filepath) == LET lines == Delivered(FileAt(fs, filepath))
                        IN {<<filepath, n>> : n \in {m \in 1..Len(lines) : Both(lines[m])}}
    IN UNION {Of(all_files[k]) : k \in 1..Len(all_files)}

\* C3: a line that matches an import pattern and the usage pattern is recorded
\* as an import only; no (path, line) is in both lists.
C3_ImportPrecedence ==
    Returned =>
        /\ C3_Keys(result.imports) \cap C3_Keys(result.usages) = {}
        /\ C3_BothLines \subseteq C3_Keys(result.imports)
        /\ C3_BothLines \cap C3_Keys(result.usages) = {}

\* A result was returned for a tree with a line that matches both.
C3_Witness == pc = "returned" /\ C3_BothLines # {} /\ result.usages # <<>>

\* A directory name the walk must not descend into.
C4_Denylisted(name) == name \in SKIP_DIRS \/ (Len(name) >= 2 /\ name[Len(name)] = "egg-info")

C4_Below(path) == \E i \in 1..Len(path) : C4_Denylisted(path[i])

\* C4: no component visits a directory below the root whose name is
\* denylisted or ends with ".egg-info", and no file collected and no match of
\* any category lies under such a directory.
C4_DenylistNeverVisited ==
    /\ \A d \in visited : ~C4_Below(d)
    /\ \A k \in 1..Len(all_files) : ~C4_Below(all_files[k])
    /\ \A k \in 1..Len(packageset_matches) : ~C4_Below(packageset_matches[k].path)
    /\ \A k \in 1..Len(AllMatches) : ~C4_Below(AllMatches[k].path)

\* The packageset locator, the definition locator and the file collection
\* have walked a tree whose denylisted directories hold a file with an import
\* line, a package directory and a manifest named after the package.
C4_Witness ==
    /\ pc = "returned"
    /\ search_packagesets
    /\ language = "python"
    /\ fs.code
    /\ << <<"pkgsets">> >> \in visited
    /\ AnySearch(get_import_patterns(package_name, language),
                 FileAt(fs, << <<"build">>, <<"gen", "py">> >>).lines[1])
    /\ FileAt(fs, << <<"build">>, <<"opmlite">>, Init_py >>) # Absent
    /\ FilenameMatches(<<"opmlite", "packageset">>, package_name)
    /\ FileAt(fs, << <<"build">>, <<"opmlite", "packageset">> >>) # Absent

\* C5: find_package returns only when no worker failed; every match of every
\* batch is then in the result.
C5_FailurePropagates ==
    (pc \in {"sort", "returned"} /\ UsesPool(batches, max_workers)) =>
        \A i \in 1..Len(batches) :
            /\ futures[i].state = "done"
            /\ LET got == search_files_batch(fs, batches[i], package_name, language)
               IN /\ SeqToSet(got.imports) \subseteq SeqToSet(result.imports)
                  /\ SeqToSet(got.usages) \subseteq SeqToSet(result.usages)

\* The failure of a worker whose batch holds matches has left find_package as
\* an exception.
C5_Witness ==
    /\ pc = "raised"
    /\ \E i \in 1..Len(batches) :
          /\ futures[i].state = "failed"
          /\ search_files_batch(fs, batches[i], package_name, language).imports # <<>>

\* C6: a collected file whose read fails, on open or later, has no match in
\* the imports or the usages.
C6_UnreadableFileHasNoMatch ==
    Returned =>
        \A k \in 1..Len(all_files) :
            FileAt(fs, all_files[k]).err # "none" =>
                /\ \A i \in 1..Len(result.imports) : result.imports[i].path # all_files[k]
                /\ \A i \in 1..Len(result.usages) : result.usages[i].path # all_files[k]

\* C7: the exit status is 0 if the root is a directory and a match of some
\* category was found, and 1 otherwise; an invalid root exits before any scan;
\* the output mode does not matter.
C7_ExitStatus ==
    pc = "exited" =>
        /\ exit_code \in {0, 1}
        /\ exit_code = 0 <=>
              /\ root_kind = "dir"
              /\ Len(result.definitions) + Len(result.imports) + Len(result.usages) > 0
        /\ root_kind # "dir" => visited = {} /\ output = <<>>

\* main exited with status 0 on imports alone, in the formatted mode.
C7_Witness ==
    /\ pc = "exited"
    /\ exit_code = 0
    /\ result.definitions = <<>>
    /\ result.imports # <<>>
    /\ max_items # Running

(***************************************************************************)
(* What the properties below need of a tree, computed once for every tree  *)
(* of Init rather than in every state.                                     *)
(***************************************************************************)
RECURSIVE FilesUnder(_, _)
\* The names of the files of the directories pending and of every directory
\* below them, the denylisted ones included.
FilesUnder(t, pending) ==
    IF pending = <<>>
    THEN <<>>
    ELSE LET d == Head(pending)
             names == Dirnames(t, d)
         IN Filenames(t, d)
              \o FilesUnder(t, Tail(pending) \o [i \in 1..Len(names) |-> Append(d, names[i])])

RECURSIVE DirFacts(_, _)
\* The given directories, each with the names of its files.
DirFacts(t, dirs) ==
    IF dirs = <<>>
    THEN <<>>
    ELSE << [dir |-> Head(dirs), files |-> Filenames(t, Head(dirs))] >>
           \o DirFacts(t, Tail(dirs))

RECURSIVE FilesOfDirs(_)
FilesOfDirs(facts) ==
    IF facts = <<>> THEN <<>> ELSE Head(facts).files \o FilesOfDirs(Tail(facts))

\* packagesets: the .packageset files the locator examines;
\* walked: the directories the walk from the root reaches, with their files;
\* counts: per language, in the order python, csharp, perl, rust, packageset,
\*   the files of the walked directories with one of its extensions;
\* bare: no file of the tree, wherever it lies, has a recognized extension.
TreeFacts(t) ==
    LET Count(files, extensions) ==
            LET Has(filename) == Suffix(filename) \in extensions
            IN Len(SelectSeq(files, Has))
        walked == DirFacts(t, Walk(t, Root))
        reached == FilesOfDirs(walked)
        Recognized(filename) ==
            Suffix(filename) \in {"py", "pyi", "pyx", "cs", "csx", "pl", "pm", "t", "pod",
                                  "rs", "packageset"}
    IN [packagesets |-> PackagesetFiles(t, Root),
        walked |-> walked,
        counts |-> << Count(reached, {"py", "pyi", "pyx"}), Count(reached, {"cs", "csx"}),
                      Count(reached, {"pl", "pm", "t", "pod"}), Count(reached, {"rs"}),
                      Count(reached, {"packageset"}) >>,
        bare |-> SelectSeq(FilesUnder(t, <<Root>>), Recognized) = <<>>]

\* The table of the trees of Init (@@ yields the function with its values
\* computed).
TreeTable == [t \in Trees \cup SmallTrees |-> TreeFacts(t)] @@ <<>>

\* The facts of the tree of the run.
Facts == TreeTable[fs]

\* The packageset locator has run.
C8_Searched == search_packagesets /\ root_kind = "dir" /\ pc \notin {"main", "call", "step0"}

C8_MatchesOf(filepath) ==
    LET IsOf(m) == m.path = filepath IN SelectSeq(packageset_matches, IsOf)

\* The filename stem, case-folded, is the package name or ends with "." and
\* the package name.
C8_StemMatches(filename) ==
    LET stem == Lower(SubSeq(filename, 1, Len(filename) - 1))
        pkg == Lower(package_name)
    IN \/ stem = pkg
       \/ /\ Len(stem) > Len(pkg)
          /\ \A i \in 1..Len(pkg) : stem[Len(stem) - Len(pkg) + i] = pkg[i]

\* The lines of an id field that contains the package name, case-folded.
C8_IdLines(f) ==
    {n \in 1..Len(f.lines) :
        /\ f.lines[n].form = "id"
        /\ ContainsName(Lower(f.lines[n].name), Lower(package_name))}

\* C8: for every .packageset file examined the first of three checks that
\* applies decides: the filename (a whole-file definition, the content not
\* inspected), else the id field (a definition on the line of its first
\* occurrence), else a mention (an import); each file yields at most one match.
C8_PackagesetChecksInOrder ==
    C8_Searched =>
        \A filepath \in SeqToSet(Facts.packagesets) :
            LET filename == filepath[Len(filepath)]
                f == FileAt(fs, filepath)
                got == C8_MatchesOf(filepath)
            IN /\ Len(got) <= 1
               /\ IF C8_StemMatches(filename)
                  THEN got = << PackageMatch(filepath, "definition", NoLine,
                                             Line("Filename match", filename)) >>
                  ELSE IF f.err = "none" /\ C8_IdLines(f) # {}
                  THEN /\ Len(got) = 1
                       /\ got[1].match_type = "definition"
                       /\ got[1].line_number \in C8_IdLines(f)
                       /\ \A n \in C8_IdLines(f) : got[1].line_number <= n
                  ELSE IF f.err = "none" /\ Mentions(f.lines, package_name)
                  THEN /\ Len(got) = 1
                       /\ got[1].match_type = "import"
                       /\ got[1].line_number = NoLine
                  ELSE got = <<>>

\* The locator has examined a file decided by its name although its content
\* holds an id field, and a file decided by the second of its id fields.
C8_Witness ==
    /\ C8_Searched
    /\ \E k \in 1..Len(packageset_matches) :
          LET m == packageset_matches[k]
          IN /\ m.line_content.form = "Filename match"
             /\ C8_IdLines(FileAt(fs, m.path)) # {}
    /\ \E k \in 1..Len(packageset_matches) :
          /\ packageset_matches[k].match_type = "definition"
          /\ packageset_matches[k].line_number = 2

C9_OfficeFile == << <<"pkgsets">>, OfficePackageset >>

C9_IsManifest(m) == m.path # <<>> /\ m.path[Len(m.path)][Len(m.path[Len(m.path)])] = "packageset"

\* The tree holds pkgsets/office.engineering.opmlite.packageset and no
\* canonical pkgsets directory, and "opmlite" is searched.
C9_Scenario == fs.office /\ ~fs.canonical /\ package_name = Opm

\* C9: with packagesets disabled the locator does not run and no match comes
\* from a manifest file; in the scenario the file is a definition by the
\* filename suffix rule when enabled, and gives no definition when disabled.
C9_NoPackagesets ==
    /\ (~search_packagesets /\ root_kind = "dir" /\ pc \notin {"main", "call"}) =>
          /\ packageset_matches = <<>>
          /\ \A k \in 1..Len(AllMatches) : ~C9_IsManifest(AllMatches[k])
    /\ (Returned /\ C9_Scenario) =>
          LET from_file == {k \in 1..Len(result.definitions) :
                               result.definitions[k].path = C9_OfficeFile}
          IN IF search_packagesets
             THEN /\ Cardinality(from_file) = 1
                  /\ \A k \in from_file :
                        result.definitions[k].line_content.form = "Filename match"
             ELSE from_file = {}

\* A result was returned with packagesets disabled for the tree of the scenario.
C9_Witness == pc = "returned" /\ C9_Scenario /\ ~search_packagesets /\ result.definitions # <<>>

\* The result was formatted (not printed as JSON).
C10_Formatted == pc = "exited" /\ root_kind = "dir" /\ max_items # Running

C10_Category(category) ==
    CASE category = "definitions" -> result.definitions
      [] category = "imports" -> result.imports
      [] category = "usages" -> result.usages

C10_Lines(kind, category) ==
    LET Is(l) == l.kind = kind /\ l.category = category IN SelectSeq(output, Is)

\* C10: every category shows at most max_items entries, its header and the
\* summary report its true total, and a category with more than max_items
\* matches has a "... and N more" line, N = total - max_items.
C10_TruncationReported ==
    C10_Formatted =>
        \A category \in {"definitions", "imports", "usages"} :
            LET total == Len(C10_Category(category))
            IN /\ Len(C10_Lines("entry", category)) <= max_items
               /\ total > 0 =>
                     /\ Len(C10_Lines("header", category)) = 1
                     /\ C10_Lines("header", category)[1].count = total
                     /\ Len(C10_Lines("summary", category)) = 1
                     /\ C10_Lines("summary", category)[1].count = total
               /\ total > max_items =>
                     /\ Len(C10_Lines("more", category)) = 1
                     /\ C10_Lines("more", category)[1].count = total - max_items

(***************************************************************************)
(* The language auto-detector within find_package.                         *)
(***************************************************************************)
\* detect_language was called and has returned.
Detected == "detect_language" \in SeqToSet(steps)

\* Per language, in the order of C11_Order, the files with one of its
\* extensions in the directories the detector's walk reaches (no tree of
\* Spec holds more than 1000 files).
C11_Counts == Facts.counts

C11_Order == <<"python", "csharp", "perl", "rust", "packageset">>

\* C11: when some file was counted, the detected language has the highest
\* count, and every language before it in the order python, csharp, perl,
\* rust, packageset has a strictly lower count.
C11_HighestCountFirstInOrder ==
    Detected =>
        \A n \in {C11_Counts} :
            (\E i \in 1..5 : n[i] > 0) =>
                \E k \in 1..5 :
                    /\ result.language = C11_Order[k]
                    /\ \A j \in 1..5 : n[j] <= n[k]
                    /\ \A j \in 1..(k - 1) : n[j] < n[k]

\* A tie at the top that python is not part of: csharp and rust have one
\* file each, no language has more, and csharp was returned.
C11_Witness ==
    /\ pc = "returned"
    /\ Detected
    /\ result.language = "csharp"
    /\ \E n \in {C11_Counts} : n[2] = 1 /\ n[4] = 1 /\ \A j \in 1..5 : n[j] <= 1

\* The tree holds no file of a recognized extension, in any directory.
C12_NoRecognizedFile == Facts.bare

\* C12: on a tree with no file of a recognized extension the detector
\* returns "csharp", and find_package goes on with that language and does
\* not raise.
C12_DefaultLanguage ==
    Detected =>
        \/ /\ result.language = "csharp"
           /\ language = "csharp"
           /\ pc # "raised"
        \/ ~C12_NoRecognizedFile

\* find_package returned on such a tree, the language auto-detected.
C12_Witness ==
    /\ pc = "returned"
    /\ lang_arg = "auto"
    /\ Detected
    /\ C12_NoRecognizedFile
    /\ result.language = "csharp"

\* C19: a language resolved by auto-detection is one of the four languages
\* the command line accepts.
C19_ResolvedIsSelectable ==
    (lang_arg = "auto" /\ Detected) =>
        result.language \in {"python", "csharp", "perl", "rust"}

(***************************************************************************)
(* The config files of a language.                                         *)
(***************************************************************************)
\* The files were collected.
Collected == "collect_files" \in SeqToSet(steps)

\* A file name against an entry of a config-file set read as a filename
\* glob: the exact name, or "*.<ext>".
C13_MatchesEntry(filename, pattern) ==
    \/ filename = pattern
    \/ /\ Len(pattern) = 2
       /\ pattern[1] = "*"
       /\ Len(filename) >= 2
       /\ filename[Len(filename)] = pattern[2]

\* C13: the files collected for a language include every file of the walk
\* whose name matches an entry of the language's config-file set, as an
\* exact name or as a glob.
C13_ConfigFilesCollected ==
    Collected =>
        \A d \in SeqToSet(Walk(fs, Root)) :
            \A n \in SeqToSet(Filenames(fs, d)) :
                (\E pattern \in ConfigFiles(language) : C13_MatchesEntry(n, pattern))
                    => Append(d, n) \in SeqToSet(all_files)

\* The part of C13 that the code has: the files named exactly as an entry.
C13_ExactNamesCollected ==
    Collected =>
        \A d \in SeqToSet(Walk(fs, Root)) :
            \A n \in SeqToSet(Filenames(fs, d)) :
                n \in ConfigFiles(language) => Append(d, n) \in SeqToSet(all_files)

(***************************************************************************)
(* The dispatcher.                                                         *)
(***************************************************************************)
\* The batches were split and the scan was started.
Dispatched ==
    \/ pc \in {"pool", "sequential", "sort", "raised", "returned"}
    \/ pc = "exited" /\ root_kind = "dir"

\* The imports and usages of the first n batches, scanned in batch order.
C14_InBatchOrder(n) ==
    LET Got(k) == search_files_batch(fs, batches[k], package_name, language)
    IN [imports |-> Concat([k \in 1..n |-> Got(k).imports]),
        usages |-> Concat([k \in 1..n |-> Got(k).usages])]

\* C14: a pool exists exactly when there is more than one batch and
\* max_workers is not 1.  With a pool no batch runs in the coordinating
\* process; without one no future exists, and the batches run in the
\* coordinating process in batch order.
C14_PoolIffBatchesAndWorkers ==
    Dispatched =>
        /\ (futures # <<>>) <=> (Len(batches) > 1 /\ max_workers # 1)
        /\ futures # <<>> => (Len(futures) = Len(batches) /\ batch_i = 0)
        /\ futures = <<>> =>
              /\ completed = <<>> /\ gathered = 0
              /\ pc \notin {"pool", "raised"}
              /\ pc = "sequential" =>
                    /\ result.imports = BeforeScan.imports \o C14_InBatchOrder(batch_i).imports
                    /\ result.usages = BeforeScan.usages \o C14_InBatchOrder(batch_i).usages

\* Several batches were scanned one after the other because max_workers is 1.
C14_Witness ==
    /\ pc = "sequential"
    /\ max_workers = 1
    /\ Len(batches) > 1
    /\ batch_i = Len(batches)
    /\ futures = <<>>
    /\ result.imports # <<>>

\* C15: the batches are contiguous pieces of the file list: joined in batch
\* order they are the file list; every batch but the last holds batch_size
\* files, the last between 1 and batch_size; no file is in two batches or
\* twice in one; and when the scan is over every batch was scanned once.
C15_BatchesPartitionFiles ==
    Dispatched =>
        /\ Concat(batches) = all_files
        /\ \A k \in 1..(Len(batches) - 1) : Len(batches[k]) = batch_size
        /\ \A k \in 1..Len(batches) : Len(batches[k]) \in 1..batch_size
        /\ \A f \in SeqToSet(all_files) :
              Cardinality({ka \in (1..Len(batches)) \X (1..batch_size) :
                              ka[2] <= Len(batches[ka[1]]) /\ batches[ka[1]][ka[2]] = f}) = 1
        /\ pc \in {"sort", "returned", "exited"} =>
              IF futures = <<>>
              THEN batch_i = Len(batches)
              ELSE /\ Len(completed) = Len(batches)
                   /\ SeqToSet(completed) = 1..Len(batches)

\* A scan of several batches, the last one shorter, has returned.
C15_Witness ==
    /\ pc = "returned"
    /\ Len(batches) >= 2
    /\ batch_size >= 2
    /\ Len(batches[Len(batches)]) < batch_size

(***************************************************************************)
(* The order of the steps of one query.                                    *)
(***************************************************************************)
C16_Order ==
    << "packageset_search", "detect_language", "definition_search", "collect_files",
       "scan", "merge", "sort" >>

C16_Rank(step) == CHOOSE i \in 1..Len(C16_Order) : C16_Order[i] = step

\* find_package is past the language resolution.
C16_Resolved ==
    \/ pc \in {"step1", "step2", "step3", "pool", "sequential", "sort", "raised", "returned"}
    \/ pc = "exited" /\ root_kind = "dir"

\* C16: the steps begin in the order packageset search, language detection,
\* definition search, file collection, scan, merge, sort; the packageset
\* search runs exactly when enabled, the detection exactly when the language
\* is "auto"; no batch is scanned, in a worker or in the coordinating
\* process, before the files are collected; and the sort begins only when
\* the result of every batch has been merged.
C16_PipelineOrder ==
    /\ \A i, j \in 1..Len(steps) : i < j => C16_Rank(steps[i]) < C16_Rank(steps[j])
    /\ (C16_Resolved \/ pc = "detect") =>
          ("packageset_search" \in SeqToSet(steps) <=> search_packagesets)
    /\ C16_Resolved => ("detect_language" \in SeqToSet(steps) <=> lang_arg = "auto")
    /\ "collect_files" \in SeqToSet(steps) => "definition_search" \in SeqToSet(steps)
    /\ (futures # <<>> \/ batch_i > 0 \/ "scan" \in SeqToSet(steps)) =>
          "collect_files" \in SeqToSet(steps)
    /\ "merge" \in SeqToSet(steps) => "scan" \in SeqToSet(steps)
    /\ "sort" \in SeqToSet(steps) =>
          /\ "collect_files" \in SeqToSet(steps)
          /\ IF futures = <<>> THEN batch_i = Len(batches) ELSE gathered = Len(batches)

\* A query that ran every step, the scan on a pool, has returned.
C16_Witness ==
    /\ pc = "returned"
    /\ steps = C16_Order
    /\ futures # <<>>
    /\ Len(batches) >= 2

(***************************************************************************)
(* The structural definitions of python.                                   *)
(***************************************************************************)
\* The definitions the definition search added: those after the definitions
\* of the packageset search.
C17_SourceDefinitions ==
    LET IsDef(m) == m.match_type = "definition"
        n == Len(SelectSeq(packageset_matches, IsDef))
    IN SubSeq(result.definitions, n + 1, Len(result.definitions))

\* The number of the given definitions on the file at a path.
C17_MatchesOn(definitions, path) ==
    LET On(m) == m.path = path IN Len(SelectSeq(definitions, On))

\* A walked directory named as the package that holds __init__.py.
C17_IsPackage(w) ==
    /\ (IF w.dir = <<>> THEN RootName ELSE w.dir[Len(w.dir)]) = package_name
    /\ <<"__init__", "py">> \in SeqToSet(w.files)

\* A walked directory that holds <package_name>.py.
C17_HasModule(w) == Append(package_name, "py") \in SeqToSet(w.files)

\* C17: for python, every directory of the walk that is named as the package
\* and holds __init__.py has exactly one definition on that file, every
\* directory that holds <package_name>.py has exactly one on that file, every
\* definition is one of these, and none carries a line number or a line.
C17_StructuralDefinitions ==
    (language = "python" /\ "definition_search" \in SeqToSet(steps)) =>
        \A walked \in {SeqToSet(Facts.walked)}, definitions \in {C17_SourceDefinitions} :
            /\ \A w \in walked :
                  /\ C17_MatchesOn(definitions, Append(w.dir, <<"__init__", "py">>))
                        = IF C17_IsPackage(w) THEN 1 ELSE 0
                  /\ C17_MatchesOn(definitions, Append(w.dir, Append(package_name, "py")))
                        = IF C17_HasModule(w) THEN 1 ELSE 0
            /\ \A m \in SeqToSet(definitions) :
                  /\ m.match_type = "definition"
                  /\ m.line_number = NoLine
                  /\ m.line_content = NoContent
                  /\ \E w \in walked :
                        \/ C17_IsPackage(w) /\ m.path = Append(w.dir, <<"__init__", "py">>)
                        \/ C17_HasModule(w) /\ m.path = Append(w.dir, Append(package_name, "py"))

\* Both rules fired in one search: src/opmlite/__init__.py and src/opmlite.py.
C17_Witness ==
    /\ pc = "returned"
    /\ language = "python"
    /\ Len(C17_SourceDefinitions) = 2
    /\ C17_MatchesOn(C17_SourceDefinitions, << <<"src">>, <<"opmlite">>, <<"__init__", "py">> >>) = 1
    /\ C17_MatchesOn(C17_SourceDefinitions, << <<"src">>, <<"opmlite", "py">> >>) = 1

(***************************************************************************)
(* The detector's early exit (checked under DetectSpec).                   *)
(***************************************************************************)
\* Per language, the files of directory d that carry one of its extensions.
C18_FilesOf(d) ==
    LET names == Filenames(fs, d)
        suffixes == [i \in 1..Len(names) |-> Suffix(names[i])]
    IN [l \in {"python", "csharp", "perl", "rust", "packageset"} |->
            Cardinality({i \in 1..Len(names) : suffixes[i] \in Extensions(l)})]

\* C18: the detector visits the directories of the walk up to and including
\* the first one at which the number of files counted so far exceeds 1000,
\* and no directory after it; when it stops, the counters add up to the
\* number of files of a recognized extension in the directories visited,
\* each file counted for the one language that has its extension.
C18_EarlyExit ==
    pc = "step1" =>
        LET W == Walk(fs, Root)
            Langs == {"python", "csharp", "perl", "rust", "packageset"}
            per == [k \in 1..Len(W) |-> C18_FilesOf(W[k])]
            all == [k \in 1..Len(W) |->
                        per[k]["python"] + per[k]["csharp"] + per[k]["perl"]
                        + per[k]["rust"] + per[k]["packageset"]]
            total[k \in 0..Len(W)] == IF k = 0 THEN 0 ELSE total[k - 1] + all[k]
            over == {k \in 1..Len(W) : total[k] > 1000}
            cut == IF over = {} THEN Len(W) ELSE CHOOSE k \in over : \A j \in over : k <= j
            counted[k \in 0..Len(W)] ==
                IF k = 0 THEN [l \in Langs |-> 0]
                ELSE [l \in Langs |-> counted[k - 1][l] + per[k][l]]
            scan == DetectScan(fs, Root)
        IN /\ visited = {W[k] : k \in 1..cut}
           /\ scan.scanned = SubSeq(W, 1, cut)
           /\ scan.counts = counted[cut]

\* The detector stopped early: more than 1000 files counted, and a directory
\* of the walk that holds files was never visited.
C18_Witness ==
    /\ pc = "step1"
    /\ SumCounts(DetectScan(fs, Root).counts, Languages) > 1000
    /\ \E d \in SeqToSet(Walk(fs, Root)) : d \notin visited /\ Filenames(fs, d) # <<>>

====
